---- MODULE Spec2Model ----
(***************************************************************************)
(* Two-stage pillar predictor (feasibility classifier gating a steel-ratio *)
(* regressor) and the width optimizer built on its batch path.             *)
(*                                                                         *)
(* Numbers.  The program computes in floating point; the model keeps       *)
(* every quantity an exact integer by fixing the unit it is counted in:    *)
(*   - dimensions and loads are the integers the callers pass;             *)
(*   - probabilities are in percent (0.5 is 50);                           *)
(*   - costs are in millionths of the currency unit, so that               *)
(*       (b/100)*(h/100)*(L/100)*price      is  b*h*L*price                *)
(*       As*(L/100)*0.785*price             is  As*L*785*10*price          *)
(*   - an extended real (a cost that may be +infinity) is a record         *)
(*     [inf, val];                                                         *)
(*   - a quotient (a slenderness, the aspect ratio) is the record          *)
(*     [num, den] of the integers it is computed from.                     *)
(***************************************************************************)
EXTENDS Integers, Sequences, FiniteSets, TLC

\* ------------------------------------------------------------------ bounds
MaxWidth == 3
MaxBatch == 2
MaxStep == 2

\* ------------------------------------------------------- program constants
\* 0.785 kg of steel per cm2 of section and metre of bar, in thousandths.
SteelKgPerCm2M == 785
\* the penalization threshold on the feasibility probability, in percent.
ProbThreshold == 50
\* 3.46, the slenderness factor of a rectangular section, in hundredths.
SlendernessFactor == 346

\* config.FEATURE_COLUMNS: the raw columns and the engineered columns the
\* models read.  'As' and 'Ac' are not among them.
RawFeatureColumns ==
    {"fck", "PeDireito", "largura", "Altura", "Cobrimento",
     "N_top", "Mx_top", "My_top", "N_base", "Mx_base", "My_base"}

EngineeredFeatureColumns ==
    {"dN", "dMx", "dMy", "lambda_x", "lambda_y", "aspect_ratio",
     "e_x", "e_y"}

FEATURE_COLUMNS == RawFeatureColumns \cup EngineeredFeatureColumns

\* The columns create_engineered_features reads with df[...]: a missing one
\* raises KeyError.  'Cobrimento' and 'As' are not read there.
ReadColumns ==
    {"largura", "Altura", "PeDireito", "fck",
     "N_top", "N_base", "Mx_top", "Mx_base", "My_top", "My_base"}

\* ----------------------------------------------------------------- inputs
\* run_optimization.LOAD_VECTOR
LOAD_VECTOR ==
    [N_top |-> 392, Mx_top |-> 129, My_top |-> -92,
     N_base |-> 392, Mx_base |-> 205, My_base |-> 430]

\* f @@ g with the right operand winning, as in the dict merge {**f, **g}.
Merge(f, g) ==
    [k \in (DOMAIN f) \cup (DOMAIN g) |-> IF k \in DOMAIN g THEN g[k] ELSE f[k]]

\* d with d[k] = v assigned (the key is created when absent).
Assign(d, k, v) ==
    [x \in (DOMAIN d) \cup {k} |-> IF x = k THEN v ELSE d[x]]

\* The observed steel areas a caller may pass (0: none observed).
AsValues == {0, 20}

\* The widths of the records callers pass: with the height 2, a section
\* narrower than, as wide as and wider than it is high.
PillarWidths == {1, 2, 3}

\* The records callers pass to predict_single and predict_batch, with and
\* without an observed steel area.
Pillars ==
    { Merge([fck |-> 50, PeDireito |-> 200, Cobrimento |-> 3,
             largura |-> b, Altura |-> 2, As |-> a], LOAD_VECTOR)
      : b \in PillarWidths, a \in AsValues }

\* Records without an 'As' key: no steel area was observed.
Unobserved ==
    { Merge([fck |-> 50, PeDireito |-> 200, Cobrimento |-> 3,
             largura |-> b, Altura |-> 2], LOAD_VECTOR) : b \in PillarWidths }

\* Records of other load cases: no axial force at either station, and an
\* axial force and moments whose largest magnitude is a negative top value.
OtherLoadCases ==
    LET section == [fck |-> 50, PeDireito |-> 200, Cobrimento |-> 3,
                    largura |-> 2, Altura |-> 2, As |-> 0]
    IN  { Merge(section, Merge(LOAD_VECTOR, [N_top |-> 0, N_base |-> 0])),
          Merge(section, [N_top |-> -400, Mx_top |-> -300, My_top |-> -92,
                          N_base |-> 392, Mx_base |-> 205, My_base |-> 0]) }

\* ----------------------------------------------------------------- models
\* A loaded model is whatever object the pickle holds; the predictor only
\* calls predict / predict_proba on it.  The models ranged over are decision
\* trees with one split on the width column of X: rows with X.largura < thr
\* fall in leaf lo, the others in leaf hi.  A classifier leaf holds the label
\* predict() returns and the probability of class 1 predict_proba() returns
\* (in percent): the predictor makes the two calls separately and derives
\* neither from the other, and the optimizer tests both, so a leaf holds
\* them independently.  A regressor leaf holds rho, and the regressors split
\* at width 2.
Labels == {0, 1}
ProbValues == {40, 50}
RhoValues == {-1, 2}

ClassifierLeaves == [label : Labels, prob : ProbValues]

Classifiers == [thr : 2..MaxWidth, lo : ClassifierLeaves, hi : ClassifierLeaves]

Regressors == [thr : {2}, lo : RhoValues, hi : RhoValues]

Leaf(model, x) == IF x.largura < model.thr THEN model.lo ELSE model.hi

VARIABLES
    classifier,     \* self.classifier
    regressor,      \* self.regressor
    pc,             \* position of the running call
    in_optimizer,   \* predict_batch was called by find_optimal_width
    pillar_data,    \* predict_single's argument
    pillars_data,   \* predict_batch's argument
    df,             \* the table built from the argument
    df_eng,         \* the engineered table (one row per record)
    feasibility,    \* classifier.predict(X), one label per row
    probs,          \* classifier.predict_proba(X)[:, 1]
    rho_preds,      \* regressor.predict(X)
    result,         \* predict_single's result dict
    results_df,     \* predict_batch's result table
    calls,          \* the model invocations of the running call, in order
    fixed_params,   \* find_optimal_width's arguments
    loads,
    constraints,
    costs,
    candidates,     \* the candidate records of the grid
    df_results,     \* the annotated grid before sorting
    df_final        \* the table find_optimal_width returns

vars ==
    <<classifier, regressor, pc, in_optimizer, pillar_data, pillars_data,
      df, df_eng, feasibility, probs, rho_preds, result, results_df, calls,
      fixed_params, loads, constraints, costs, candidates, df_results,
      df_final>>

models == <<classifier, regressor>>

optimizerVars ==
    <<fixed_params, loads, constraints, costs, candidates, df_results,
      df_final>>

\* ---------------------------------------------------- feature engineering
\* A quotient of two integers, kept as the pair it is computed from (the
\* denominators that occur are positive).
Frac(n, d) == [num |-> n, den |-> d]

FracEq(a, b) == a.num * b.den = b.num * a.den

FracLeq(a, b) == a.num * b.den <= b.num * a.den

\* np.maximum(a, b)
FracMax(a, b) == IF FracLeq(a, b) THEN b ELSE a

\* lambda_x = 3.46 * pe_direito / largura
LambdaX(row) ==
    Frac(SlendernessFactor * row.PeDireito, 100 * row.largura)

\* Mutant: the height's slenderness uses sqrt(12) to one more digit.
LambdaY_Sqrt12(row) == Frac(3464 * row.PeDireito, 1000 * row.Altura)

\* lambda_y = 3.46 * pe_direito / altura
LambdaY(row) ==
    Frac(SlendernessFactor * row.PeDireito, 100 * row.Altura)

\* aspect_ratio = np.maximum(altura / largura, largura / altura)
AspectRatio(row) ==
    FracMax(Frac(row.Altura, row.largura), Frac(row.largura, row.Altura))

\* np.abs(x)
Abs(x) == IF x < 0 THEN -x ELSE x

\* np.maximum(np.abs(top), np.abs(base))
MaxAbs(top, base) == IF Abs(top) >= Abs(base) THEN Abs(top) ELSE Abs(base)

\* np.where(cond, a, b), one cell: both a and b have been computed.
Where(cond, a, b) == IF cond THEN a ELSE b

\* Mutant: the quotient is taken whatever N_max is.
EX_Unguarded(row) ==
    Frac(MaxAbs(row.Mx_top, row.Mx_base), MaxAbs(row.N_top, row.N_base))

\* e_x = np.where(N_max != 0, Mx_max / N_max, 0).  The quotient is computed
\* for every row; over a zero N_max it is the non-finite cell Frac(m, 0),
\* computed without an exception and discarded by np.where.
EX(row) ==
    LET N_max  == MaxAbs(row.N_top, row.N_base)
        Mx_max == MaxAbs(row.Mx_top, row.Mx_base)
    IN  Where(N_max # 0, Frac(Mx_max, N_max), Frac(0, 1))

\* e_y = np.where(N_max != 0, My_max / N_max, 0)
EY(row) ==
    LET N_max  == MaxAbs(row.N_top, row.N_base)
        My_max == MaxAbs(row.My_top, row.My_base)
    IN  Where(N_max # 0, Frac(My_max, N_max), Frac(0, 1))

\* create_engineered_features on one row: the cross-section area, the load
\* variations, the two slendernesses, the eccentricities and the aspect
\* ratio.
EngineerRow(row) ==
    Merge(row,
          [dN  |-> row.N_base - row.N_top,
           dMx |-> row.Mx_base - row.Mx_top,
           dMy |-> row.My_base - row.My_top,
           Ac  |-> row.largura * row.Altura,
           lambda_x |-> LambdaX(row),
           lambda_y |-> LambdaY(row),
           e_x |-> EX(row),
           e_y |-> EY(row),
           aspect_ratio |-> AspectRatio(row)])

\* pd.DataFrame(records): the columns are the union of the records' keys.
Columns(records) == UNION { DOMAIN records[i] : i \in 1..Len(records) }

\* The cell of a row that lacks a key some other row supplies.
NaN == "NaN"

\* pd.DataFrame(records): one row per record over the union of the keys, a
\* missing cell filled with NaN.
DataFrame(records) ==
    [i \in 1..Len(records) |->
        [c \in Columns(records) |->
            IF c \in DOMAIN records[i] THEN records[i][c] ELSE NaN]]

\* create_engineered_features raises when a column it reads is absent from
\* the table (the empty table has no column at all).
FeatureError(records) == ~(ReadColumns \subseteq Columns(records))

\* X = df_eng[FEATURE_COLUMNS] raises when a raw feature column is absent
\* from the table.
SelectionError(records) == ~(RawFeatureColumns \subseteq Columns(records))

\* Mutant: a table without rows goes through as a table without rows.
PredictError_EmptyOk(records) ==
    Len(records) > 0 /\ (FeatureError(records) \/ SelectionError(records))

\* The exceptions predict_single and predict_batch log and re-raise before
\* any model is invoked.
PredictError(records) == FeatureError(records) \/ SelectionError(records)

create_engineered_features(table) ==
    [i \in 1..Len(table) |-> EngineerRow(table[i])]

\* _process_pillar_data: a copy of the table, engineered.
ProcessPillarData(table) == create_engineered_features(table)

\* Mutant: the engineered columns are written into the caller's table.
CallerTableAfter_InPlace(table, eng) == eng

\* The caller's table once _process_pillar_data has returned: both
\* _process_pillar_data and create_engineered_features work on df.copy().
CallerTableAfter(table, eng) == table

\* Mutant: every column of the engineered table is handed to the models.
FeatureRow_AllColumns(row) == row

\* X = df_eng[FEATURE_COLUMNS], one row.
FeatureRow(row) == [c \in FEATURE_COLUMNS |-> row[c]]

\* X = df_eng[FEATURE_COLUMNS]
FeatureMatrix(eng) == [i \in 1..Len(eng) |-> FeatureRow(eng[i])]

\* classifier.predict(X)
ClassifierPredict(X) == [i \in 1..Len(X) |-> Leaf(classifier, X[i]).label]

\* classifier.predict_proba(X)[:, 1]
ClassifierPredictProba(X) == [i \in 1..Len(X) |-> Leaf(classifier, X[i]).prob]

\* regressor.predict(X)
RegressorPredict(X) == [i \in 1..Len(X) |-> Leaf(regressor, X[i])]

\* ------------------------------------------------------------------- Init
\* The state after PillarPredictor() and PillarOptimizer(predictor): both
\* models loaded, no call running.
Init ==
    /\ classifier \in Classifiers
    /\ regressor \in Regressors
    /\ pc = "idle"
    /\ in_optimizer = FALSE
    /\ pillar_data = <<>>
    /\ pillars_data = <<>>
    /\ df = <<>>
    /\ df_eng = <<>>
    /\ feasibility = <<>>
    /\ probs = <<>>
    /\ rho_preds = <<>>
    /\ result = <<>>
    /\ results_df = <<>>
    /\ calls = <<>>
    /\ fixed_params = <<>>
    /\ loads = <<>>
    /\ constraints = <<>>
    /\ costs = <<>>
    /\ candidates = <<>>
    /\ df_results = <<>>
    /\ df_final = <<>>

\* ----------------------------------------------------------- construction
\* An attribute of the instance that no load has assigned yet.
NotLoaded == [loaded |-> FALSE]

\* PillarPredictor() has been called and __init__ is about to load the
\* models.
InitLoad ==
    /\ classifier = NotLoaded
    /\ regressor = NotLoaded
    /\ pc = "new"
    /\ in_optimizer = FALSE
    /\ pillar_data = <<>>
    /\ pillars_data = <<>>
    /\ df = <<>>
    /\ df_eng = <<>>
    /\ feasibility = <<>>
    /\ probs = <<>>
    /\ rho_preds = <<>>
    /\ result = <<>>
    /\ results_df = <<>>
    /\ calls = <<>>
    /\ fixed_params = <<>>
    /\ loads = <<>>
    /\ constraints = <<>>
    /\ costs = <<>>
    /\ candidates = <<>>
    /\ df_results = <<>>
    /\ df_final = <<>>

\* Mutant: load_model swallows the exception and __init__ goes on.
AfterLoadFailure_Swallowed(next) == next

\* load_model logs the exception of joblib.load and re-raises it; __init__
\* does not catch it, so the constructor call raises and binds no instance.
AfterLoadFailure(next) == "load_failed"

\* self.classifier = load_model(path_clf): the object the file holds, or the
\* exception.
LoadClassifier ==
    /\ pc = "new"
    /\ \/ /\ classifier' \in Classifiers
          /\ pc' = "load_regressor"
       \/ /\ classifier' = classifier
          /\ pc' = AfterLoadFailure("load_regressor")
    /\ UNCHANGED <<regressor, in_optimizer, pillar_data, pillars_data, df, df_eng,
                   feasibility, probs, rho_preds, result, results_df, calls,
                   optimizerVars>>

\* self.regressor = load_model(path_reg), then the constructor returns.
LoadRegressor ==
    /\ pc = "load_regressor"
    /\ \/ /\ regressor' \in Regressors
          /\ pc' = "idle"
       \/ /\ regressor' = regressor
          /\ pc' = AfterLoadFailure("idle")
    /\ UNCHANGED <<classifier, in_optimizer, pillar_data, pillars_data, df, df_eng,
                   feasibility, probs, rho_preds, result, results_df, calls,
                   optimizerVars>>

\* --------------------------------------------------------- predict_single
\* Mutant: the regressor is never skipped.
SkipsRegressor_Never(is_feasible) == FALSE

\* if is_feasible == 0: the branch that skips the regressor.
SkipsRegressor(is_feasible) == is_feasible = 0

\* 'Feasible' if is_feasible == 1 else 'Infeasible'
Status(is_feasible) == IF is_feasible = 1 THEN "Feasible" ELSE "Infeasible"

\* pillar_data.get('As', 0)
GetAs(record) == IF "As" \in DOMAIN record THEN record.As ELSE 0

\* The result dict as first built, before either branch fills it.
ResultBase(record, Ac, is_feasible, prob_feasible) ==
    [status |-> Status(is_feasible),
     feasibility_prob |-> prob_feasible,
     Ac |-> Ac,
     As_actual |-> GetAs(record)]

\* The is_feasible == 0 branch.
ResultInfeasible(base) ==
    Merge(base,
          [rho_predicted |-> 0,
           As_predicted |-> 0,
           message |-> "Pillar geometry/loads failed feasibility check."])

\* Mutant: the error fields are filled without looking at As_actual.
ResultFeasible_Unguarded(base, rho_pred) ==
    LET As_pred == rho_pred * base.Ac
        error   == As_pred - base.As_actual
    IN  Merge(base, [rho_predicted |-> rho_pred,
                     As_predicted |-> As_pred,
                     error |-> error,
                     error_pct |-> <<error * 100, base.As_actual>>])

\* The else branch: As_pred = rho_pred * Ac, and the error against the
\* observed steel area when there is one.  error_pct is error / As_actual
\* * 100, kept as the pair <<numerator, denominator>>.
ResultFeasible(base, rho_pred) ==
    LET As_pred == rho_pred * base.Ac
        filled  == Merge(base, [rho_predicted |-> rho_pred,
                                As_predicted |-> As_pred])
        error   == As_pred - base.As_actual
    IN  IF base.As_actual > 0
        THEN Merge(filled, [error |-> error,
                            error_pct |-> <<error * 100, base.As_actual>>])
        ELSE filled

\* predict_single(pillar_data) is called.
PredictSingle ==
    /\ pc = "idle"
    /\ \E record \in Pillars \cup Unobserved \cup OtherLoadCases :
          pillar_data' = record
    /\ pc' = "ps_features"
    /\ UNCHANGED <<models, in_optimizer, pillars_data, df, df_eng, feasibility,
                   probs, rho_preds, result, results_df, calls, optimizerVars>>

\* df = pd.DataFrame([pillar_data]); df_eng = self._process_pillar_data(df)
PS_Features ==
    /\ pc = "ps_features"
    /\ IF PredictError(<<pillar_data>>)
       THEN /\ pc' = "raised"
            /\ UNCHANGED <<df, df_eng, calls>>
       ELSE /\ df_eng' = ProcessPillarData(DataFrame(<<pillar_data>>))
            /\ df' = CallerTableAfter(DataFrame(<<pillar_data>>), df_eng')
            /\ calls' = Append(calls, "features")
            /\ pc' = "ps_classify"
    /\ UNCHANGED <<models, in_optimizer, pillar_data, pillars_data,
                   feasibility, probs, rho_preds, result, results_df,
                   optimizerVars>>

\* Stage 1: classifier.predict, then classifier.predict_proba; the result
\* dict is built.
PS_Classify ==
    /\ pc = "ps_classify"
    /\ LET X == FeatureMatrix(df_eng)
           is_feasible == ClassifierPredict(X)
           prob_feasible == ClassifierPredictProba(X)
       IN  /\ feasibility' = is_feasible
           /\ probs' = prob_feasible
           /\ result' = ResultBase(pillar_data, df_eng[1].Ac,
                                   is_feasible[1], prob_feasible[1])
    /\ calls' = calls \o <<"classifier.predict", "classifier.predict_proba">>
    /\ pc' = "ps_branch"
    /\ UNCHANGED <<models, in_optimizer, pillar_data, pillars_data, df, df_eng,
                   rho_preds, results_df, optimizerVars>>

\* The infeasible terminal.
PS_Infeasible ==
    /\ pc = "ps_branch"
    /\ SkipsRegressor(feasibility[1])
    /\ result' = ResultInfeasible(result)
    /\ pc' = "ps_return"
    /\ UNCHANGED <<models, in_optimizer, pillar_data, pillars_data, df, df_eng,
                   feasibility, probs, rho_preds, results_df, calls,
                   optimizerVars>>

\* Stage 2: regressor.predict, then the feasible terminal.
PS_Regress ==
    /\ pc = "ps_branch"
    /\ ~SkipsRegressor(feasibility[1])
    /\ rho_preds' = RegressorPredict(FeatureMatrix(df_eng))
    /\ result' = ResultFeasible(result, rho_preds'[1])
    /\ calls' = Append(calls, "regressor.predict")
    /\ pc' = "ps_return"
    /\ UNCHANGED <<models, in_optimizer, pillar_data, pillars_data, df, df_eng,
                   feasibility, probs, results_df, optimizerVars>>

\* predict_single as one function of its argument, for valid records.
predict_single(record) ==
    LET eng  == ProcessPillarData(DataFrame(<<record>>))
        X    == FeatureMatrix(eng)
        base == ResultBase(record, eng[1].Ac, ClassifierPredict(X)[1],
                           ClassifierPredictProba(X)[1])
    IN  IF SkipsRegressor(ClassifierPredict(X)[1])
        THEN ResultInfeasible(base)
        ELSE ResultFeasible(base, RegressorPredict(X)[1])

\* ---------------------------------------------------------- predict_batch
\* The user records predict_batch is called with: every sequence of at most
\* MaxBatch records, the empty one included.
RECURSIVE SeqsUpTo(_, _)
SeqsUpTo(S, n) ==
    IF n = 0 THEN {<<>>}
    ELSE LET shorter == SeqsUpTo(S, n - 1)
         IN  shorter \cup { Append(q, x) : q \in shorter, x \in S }

\* Mutant: the regression outputs are returned unmasked.
MaskUnfeasible_None(labels, values) == values

\* np.where(feasibility == 1, values, 0)
MaskUnfeasible(labels, values) ==
    [i \in 1..Len(values) |-> IF labels[i] = 1 THEN values[i] ELSE 0]

\* Mutant: every row is scaled by the first row's area.
AsPreds_FirstRow(rhos, eng) == [i \in 1..Len(rhos) |-> rhos[i] * eng[1].Ac]

\* As_preds = rho_preds * Ac
AsPreds(rhos, eng) == [i \in 1..Len(rhos) |-> rhos[i] * eng[i].Ac]

\* The table predict_batch returns.
ResultsTable(records, eng, labels, probabilities, rhos) ==
    LET final_As  == MaskUnfeasible(labels, AsPreds(rhos, eng))
        final_rho == MaskUnfeasible(labels, rhos)
    IN  [i \in 1..Len(eng) |->
            [is_feasible   |-> labels[i],
             prob_feasible |-> probabilities[i],
             rho_predicted |-> final_rho[i],
             As_predicted  |-> final_As[i],
             As_actual     |-> GetAs(records[i]),
             Ac            |-> eng[i].Ac]]

\* predict_batch as one function of its argument, for valid records.
predict_batch(records) ==
    LET eng == ProcessPillarData(DataFrame(records))
        X   == FeatureMatrix(eng)
    IN  ResultsTable(records, eng, ClassifierPredict(X),
                     ClassifierPredictProba(X), RegressorPredict(X))

\* predict_batch(pillars_data) is called by a user.
PredictBatch ==
    /\ pc = "idle"
    /\ \E records \in SeqsUpTo(Pillars, MaxBatch) : pillars_data' = records
    /\ in_optimizer' = FALSE
    /\ calls' = Append(calls, "predict_batch")
    /\ pc' = "pb_features"
    /\ UNCHANGED <<models, pillar_data, df, df_eng, feasibility, probs, rho_preds,
                   result, results_df, optimizerVars>>

\* Records without the 'Cobrimento' key (the cover), otherwise complete.
NoCover ==
    { Merge([fck |-> 50, PeDireito |-> 200, largura |-> b, Altura |-> 2,
             As |-> 0], LOAD_VECTOR) : b \in PillarWidths }

\* The non-empty batches in which at least one record lacks the cover.
PartialBatches ==
    LET complete == {r \in Pillars : r.As = 0}
    IN  SeqsUpTo(complete \cup NoCover, MaxBatch) \ SeqsUpTo(complete, MaxBatch)

\* predict_batch(pillars_data) is called by a user with a batch in which a
\* record lacks a raw field.
PredictBatchPartial ==
    /\ pc = "idle"
    /\ \E records \in PartialBatches : pillars_data' = records
    /\ in_optimizer' = FALSE
    /\ calls' = Append(calls, "predict_batch")
    /\ pc' = "pb_features"
    /\ UNCHANGED <<models, pillar_data, df, df_eng, feasibility, probs, rho_preds,
                   result, results_df, optimizerVars>>

\* df = pd.DataFrame(pillars_data); df_eng = self._process_pillar_data(df).
\* An exception leaves predict_batch, and find_optimal_width when it is the
\* caller, without a result.
PB_Features ==
    /\ pc = "pb_features"
    /\ IF PredictError(pillars_data)
       THEN /\ pc' = "raised"
            /\ UNCHANGED <<df, df_eng, calls>>
       ELSE /\ df_eng' = ProcessPillarData(DataFrame(pillars_data))
            /\ df' = CallerTableAfter(DataFrame(pillars_data), df_eng')
            /\ calls' = Append(calls, "features")
            /\ pc' = "pb_classify"
    /\ UNCHANGED <<models, in_optimizer, pillar_data, pillars_data,
                   feasibility, probs, rho_preds, result, results_df,
                   optimizerVars>>

\* Mutant: classifying overwrites a leaf of the loaded classifier.
PB_Classify_Mutating ==
    /\ pc = "pb_classify"
    /\ feasibility' = ClassifierPredict(FeatureMatrix(df_eng))
    /\ probs' = ClassifierPredictProba(FeatureMatrix(df_eng))
    /\ classifier' = [classifier EXCEPT !.lo = classifier.hi]
    /\ calls' = calls \o <<"classifier.predict", "classifier.predict_proba">>
    /\ pc' = "pb_regress"
    /\ UNCHANGED <<regressor, in_optimizer, pillar_data, pillars_data, df, df_eng,
                   rho_preds, result, results_df, optimizerVars>>

\* 1. Classify all
PB_Classify ==
    /\ pc = "pb_classify"
    /\ feasibility' = ClassifierPredict(FeatureMatrix(df_eng))
    /\ probs' = ClassifierPredictProba(FeatureMatrix(df_eng))
    /\ calls' = calls \o <<"classifier.predict", "classifier.predict_proba">>
    /\ pc' = "pb_regress"
    /\ UNCHANGED <<models, in_optimizer, pillar_data, pillars_data, df, df_eng,
                   rho_preds, result, results_df, optimizerVars>>

\* Mutant: the regressor is invoked on the feasible rows only, and not at
\* all when there is none.
PB_Regress_FeasibleOnly ==
    /\ pc = "pb_regress"
    /\ rho_preds' =
          [i \in 1..Len(df_eng) |->
              IF feasibility[i] = 1
              THEN RegressorPredict(FeatureMatrix(df_eng))[i]
              ELSE 0]
    /\ calls' = IF \E i \in 1..Len(df_eng) : feasibility[i] = 1
                THEN Append(calls, "regressor.predict")
                ELSE calls
    /\ pc' = "pb_mask"
    /\ UNCHANGED <<models, in_optimizer, pillar_data, pillars_data, df, df_eng,
                   feasibility, probs, result, results_df, optimizerVars>>

\* Mutant: the regressor is invoked once per row.
PB_Regress_PerRow ==
    /\ pc = "pb_regress"
    /\ rho_preds' = RegressorPredict(FeatureMatrix(df_eng))
    /\ calls' = calls \o [i \in 1..Len(df_eng) |-> "regressor.predict"]
    /\ pc' = "pb_mask"
    /\ UNCHANGED <<models, in_optimizer, pillar_data, pillars_data, df, df_eng,
                   feasibility, probs, result, results_df, optimizerVars>>

\* 2. Regress all
PB_Regress ==
    /\ pc = "pb_regress"
    /\ rho_preds' = RegressorPredict(FeatureMatrix(df_eng))
    /\ calls' = Append(calls, "regressor.predict")
    /\ pc' = "pb_mask"
    /\ UNCHANGED <<models, in_optimizer, pillar_data, pillars_data, df, df_eng,
                   feasibility, probs, result, results_df, optimizerVars>>

\* 3. Mask unfeasible results, build the table and return it.
PB_Mask ==
    /\ pc = "pb_mask"
    /\ results_df' = ResultsTable(pillars_data, df_eng, feasibility, probs,
                                  rho_preds)
    /\ pc' = IF in_optimizer THEN "fow_costs" ELSE "pb_return"
    /\ UNCHANGED <<models, in_optimizer, pillar_data, pillars_data, df, df_eng,
                   feasibility, probs, rho_preds, result, calls,
                   optimizerVars>>

\* ----------------------------------------------------- find_optimal_width
\* An extended real: a finite value, or +infinity.
Fin(v) == [inf |-> FALSE, val |-> v]

PosInf == [inf |-> TRUE, val |-> 0]

\* a <= b on extended reals.
Leq(a, b) == b.inf \/ (~a.inf /\ a.val <= b.val)

\* range(start, stop, step) for step >= 1, as the list it iterates.
RECURSIVE Range(_, _, _)
Range(start, stop, step) ==
    IF start >= stop THEN <<>>
    ELSE <<start>> \o Range(start + step, stop, step)

\* Mutant: the upper limit is exclusive.
Larguras_Exclusive(cons) ==
    Range(cons.min_largura, cons.max_largura, cons.step)

\* 1. the grid of widths
Larguras(cons) == Range(cons.min_largura, cons.max_largura + 1, cons.step)

\* Mutant: every candidate is a square section.
Candidate_AlwaysSquare(fp, ld, b) ==
    Assign(Assign(Assign(Merge(fp, ld), "largura", b), "Altura", b), "As", 0)

\* The candidate of width b: loads merged over the fixed parameters, the
\* width set, the height defaulted to the width when absent, As zeroed.
Candidate(fp, ld, b) ==
    LET merged == Assign(Merge(fp, ld), "largura", b)
        shaped == IF "Altura" \notin DOMAIN merged
                  THEN Assign(merged, "Altura", b)
                  ELSE merged
    IN  Assign(shaped, "As", 0)

Candidates(fp, ld, cons) ==
    LET grid == Larguras(cons)
    IN  [i \in 1..Len(grid) |-> Candidate(fp, ld, grid[i])]

\* cost_concreto: (largura/100) * (Altura/100) * (pe_direito/100) * price,
\* in millionths.
CostConcreto(largura, Altura, pe_direito, cst) ==
    largura * Altura * pe_direito * cst.concreto_m3

\* cost_aco: As_predicted * (pe_direito/100) * 0.785 * price, in millionths.
CostAco(As_predicted, pe_direito, cst) ==
    As_predicted * pe_direito * SteelKgPerCm2M * 10 * cst.aco_kg

\* Mutant: only the label penalizes.
MaskInviavel_LabelOnly(row) == row.is_feasible = 0

\* mask_inviavel
MaskInviavel(row) ==
    row.is_feasible = 0 \/ row.prob_feasible < ProbThreshold

\* Mutant: the dimension columns are taken from the grid read backwards.
WithCosts_Misaligned(table, cands, fp, cst) ==
    [i \in 1..Len(table) |->
        LET k  == Len(table) - i + 1
            cc == CostConcreto(cands[k].largura, cands[k].Altura,
                               fp.PeDireito, cst)
            ca == CostAco(table[i].As_predicted, fp.PeDireito, cst)
        IN  Merge(table[i],
                  [largura |-> cands[k].largura,
                   Altura |-> cands[k].Altura,
                   custo_concreto |-> Fin(cc),
                   custo_aco |-> Fin(ca),
                   custo_total |-> Fin(cc + ca)])]

\* Steps 3 and 4: the batch table with the candidates' dimensions and the
\* three cost columns.
WithCosts(table, cands, fp, cst) ==
    [i \in 1..Len(table) |->
        LET cc == CostConcreto(cands[i].largura, cands[i].Altura,
                               fp.PeDireito, cst)
            ca == CostAco(table[i].As_predicted, fp.PeDireito, cst)
        IN  Merge(table[i],
                  [largura |-> cands[i].largura,
                   Altura |-> cands[i].Altura,
                   custo_concreto |-> Fin(cc),
                   custo_aco |-> Fin(ca),
                   custo_total |-> Fin(cc + ca)])]

\* Mutant: no row is penalized.
Penalize_None(table) == table

\* Step 5: df_results.loc[mask_inviavel, 'custo_total'] = float('inf')
Penalize(table) ==
    [i \in 1..Len(table) |->
        IF MaskInviavel(table[i])
        THEN [table[i] EXCEPT !.custo_total = PosInf]
        ELSE table[i]]

\* Mutant: the table is returned in grid order.
SortOrders_Unsorted(table) == {[i \in 1..Len(table) |-> i]}

\* Step 6: sort_values('custo_total') with the default kind, quicksort,
\* which is not stable: any arrangement of the rows in ascending order of
\* the key may come out, whatever the order of equal keys.
SortOrders(table) ==
    { p \in [1..Len(table) -> 1..Len(table)] :
        /\ \A i, j \in 1..Len(table) : p[i] = p[j] => i = j
        /\ \A i \in 1..(Len(table) - 1) :
              Leq(table[p[i]].custo_total, table[p[i + 1]].custo_total) }

\* The arguments find_optimal_width is called with.
FixedParamsChoices ==
    LET base == [fck |-> 50, PeDireito |-> 200, Cobrimento |-> 3]
    IN  {base, Assign(Assign(base, "Altura", 2), "As", 20)}

\* The load vector, alone or with a height of its own.
LoadsChoices == {LOAD_VECTOR, Assign(LOAD_VECTOR, "Altura", 1)}

ConstraintsChoices ==
    [min_largura : 1..MaxWidth, max_largura : 0..MaxWidth, step : 1..MaxStep]

\* run_optimization.COSTS
COSTS == [aco_kg |-> 12, concreto_m3 |-> 450]

\* Steps 1 to 5 of find_optimal_width as one function of its arguments: the
\* annotated grid that is then sorted.
AnnotatedGrid(fp, ld, cons, cst) ==
    LET cands == Candidates(fp, ld, cons)
    IN  Penalize(WithCosts(predict_batch(cands), cands, fp, cst))

\* find_optimal_width(fixed_params, loads, constraints, costs) is called.
FindOptimalWidth ==
    /\ pc = "idle"
    /\ \E fp \in FixedParamsChoices, ld \in LoadsChoices,
          cons \in ConstraintsChoices :
          /\ fixed_params' = fp
          /\ loads' = ld
          /\ constraints' = cons
    /\ costs' = COSTS
    /\ pc' = "fow_grid"
    /\ UNCHANGED <<models, in_optimizer, pillar_data, pillars_data, df, df_eng,
                   feasibility, probs, rho_preds, result, results_df, calls,
                   candidates, df_results, df_final>>

\* Mutant: the candidate is the caller's fixed_params dict itself, updated
\* in place: the height defaulted for the first width stays for the later
\* ones, and the caller's dict ends up holding the last candidate.
FOW_Grid_Aliased ==
    /\ pc = "fow_grid"
    /\ LET grid  == Larguras(constraints)
           first == Candidate(fixed_params, loads, grid[1])
       IN  /\ candidates' =
                 [i \in 1..Len(grid) |-> Assign(first, "largura", grid[i])]
           /\ fixed_params' =
                 IF Len(grid) = 0 THEN fixed_params
                 ELSE Assign(first, "largura", grid[Len(grid)])
    /\ pillars_data' = candidates'
    /\ in_optimizer' = TRUE
    /\ calls' = Append(calls, "predict_batch")
    /\ pc' = "pb_features"
    /\ UNCHANGED <<models, pillar_data, df, df_eng, feasibility, probs,
                   rho_preds, result, results_df, loads, constraints, costs,
                   df_results, df_final>>

\* Steps 1 and 2: the candidates are built and predict_batch is called on
\* them.
FOW_Grid ==
    /\ pc = "fow_grid"
    /\ candidates' = Candidates(fixed_params, loads, constraints)
    /\ pillars_data' = candidates'
    /\ in_optimizer' = TRUE
    /\ calls' = Append(calls, "predict_batch")
    /\ pc' = "pb_features"
    /\ UNCHANGED <<models, pillar_data, df, df_eng, feasibility, probs, rho_preds,
                   result, results_df, fixed_params, loads, constraints,
                   costs, df_results, df_final>>

\* Steps 3 to 5: quantities, costs and the penalization.
FOW_Costs ==
    /\ pc = "fow_costs"
    /\ df_results' = Penalize(WithCosts(results_df, candidates, fixed_params,
                                        costs))
    /\ pc' = "fow_sort"
    /\ UNCHANGED <<models, in_optimizer, pillar_data, pillars_data, df, df_eng,
                   feasibility, probs, rho_preds, result, results_df, calls,
                   fixed_params, loads, constraints, costs, candidates,
                   df_final>>

\* Step 6: the sorted table is returned.
FOW_Sort ==
    /\ pc = "fow_sort"
    /\ \E p \in SortOrders(df_results) :
          df_final' = [i \in 1..Len(df_results) |-> df_results[p[i]]]
    /\ pc' = "fow_return"
    /\ UNCHANGED <<models, in_optimizer, pillar_data, pillars_data, df, df_eng,
                   feasibility, probs, rho_preds, result, results_df, calls,
                   fixed_params, loads, constraints, costs, candidates,
                   df_results>>

\* ----------------------------------------------------------------- return
\* The running call has returned or raised: its locals are gone and the
\* predictor is ready for the next call.
Return ==
    /\ pc \in {"ps_return", "pb_return", "fow_return", "raised"}
    /\ pc' = "idle"
    /\ in_optimizer' = FALSE
    /\ pillar_data' = <<>>
    /\ pillars_data' = <<>>
    /\ df' = <<>>
    /\ df_eng' = <<>>
    /\ feasibility' = <<>>
    /\ probs' = <<>>
    /\ rho_preds' = <<>>
    /\ result' = <<>>
    /\ results_df' = <<>>
    /\ calls' = <<>>
    /\ fixed_params' = <<>>
    /\ loads' = <<>>
    /\ constraints' = <<>>
    /\ costs' = <<>>
    /\ candidates' = <<>>
    /\ df_results' = <<>>
    /\ df_final' = <<>>
    /\ UNCHANGED models

\* --------------------------------------------------------- specifications
\* The predictor alone: predict_single and predict_batch called by users.
NextPredict ==
    \/ PredictSingle
    \/ PS_Features
    \/ PS_Classify
    \/ PS_Infeasible
    \/ PS_Regress
    \/ PredictBatch
    \/ PB_Features
    \/ PB_Classify
    \/ PB_Regress
    \/ PB_Mask
    \/ Return

SpecPredict == Init /\ [][NextPredict]_vars

\* The optimizer alone: find_optimal_width and the batch call it makes.
NextOptimizer ==
    \/ FindOptimalWidth
    \/ FOW_Grid
    \/ PB_Features
    \/ PB_Classify
    \/ PB_Regress
    \/ PB_Mask
    \/ FOW_Costs
    \/ FOW_Sort
    \/ Return

SpecOptimizer == Init /\ [][NextOptimizer]_vars

\* predict_batch called with batches in which a record lacks a raw field.
NextPartial ==
    \/ PredictBatchPartial
    \/ PB_Features
    \/ PB_Classify
    \/ PB_Regress
    \/ PB_Mask
    \/ Return

SpecPartial == Init /\ [][NextPartial]_vars

\* The predictor from its construction on.
NextLoad ==
    \/ LoadClassifier
    \/ LoadRegressor
    \/ NextPredict

SpecLoad == InitLoad /\ [][NextLoad]_vars

Next ==
    \/ PredictSingle
    \/ PS_Features
    \/ PS_Classify
    \/ PS_Infeasible
    \/ PS_Regress
    \/ PredictBatch
    \/ PB_Features
    \/ PB_Classify
    \/ PB_Regress
    \/ PB_Mask
    \/ FindOptimalWidth
    \/ FOW_Grid
    \/ FOW_Costs
    \/ FOW_Sort
    \/ Return

Spec == Init /\ [][Next]_vars

\* ================================================================ claims
Count(seq, x) == Cardinality({i \in 1..Len(seq) : seq[i] = x})

SinglePcs == {"ps_features", "ps_classify", "ps_branch", "ps_return"}

\* C1: in predict_single the steps run in the order feature engineering,
\* classification, then either the infeasible terminal or regression and
\* the feasible terminal: a regressor invocation is always preceded by the
\* classifier's, and when the call returns the regressor has been invoked
\* exactly once if the label is 1 and never if the label is 0.
C1_SingleOrder ==
    pc \in SinglePcs =>
        /\ \A i \in 1..Len(calls) :
              /\ calls[i] = "regressor.predict" =>
                    \E j \in 1..(i - 1) : calls[j] = "classifier.predict"
              /\ calls[i] = "classifier.predict" =>
                    \E j \in 1..(i - 1) : calls[j] = "features"
        /\ pc = "ps_return" =>
              /\ Count(calls, "features") = 1
              /\ Count(calls, "classifier.predict") = 1
              /\ feasibility[1] = 1 =>
                    /\ Count(calls, "regressor.predict") = 1
                    /\ calls[Len(calls)] = "regressor.predict"
                    /\ result.status = "Feasible"
              /\ feasibility[1] = 0 =>
                    /\ Count(calls, "regressor.predict") = 0
                    /\ result.status = "Infeasible"

\* A feasible record has gone through both stages.
C1_Witness ==
    /\ pc = "ps_return"
    /\ feasibility[1] = 1
    /\ calls = <<"features", "classifier.predict",
                 "classifier.predict_proba", "regressor.predict">>

\* C2: in predict_single and predict_batch, Ac is width * height, the
\* predicted steel area is predicted rho times Ac when the record is
\* feasible, and predicted rho and steel area are both 0 when it is
\* infeasible.
C2_AreaAndSteel ==
    /\ pc = "ps_return" =>
          /\ result.Ac = pillar_data.largura * pillar_data.Altura
          /\ result.status = "Feasible" =>
                result.As_predicted = result.rho_predicted * result.Ac
          /\ result.status = "Infeasible" =>
                result.rho_predicted = 0 /\ result.As_predicted = 0
    /\ pc = "pb_return" =>
          \A i \in 1..Len(results_df) :
             LET row == results_df[i]
             IN  /\ row.Ac = pillars_data[i].largura * pillars_data[i].Altura
                 /\ row.is_feasible = 1 =>
                       row.As_predicted = row.rho_predicted * row.Ac
                 /\ row.is_feasible = 0 =>
                       row.rho_predicted = 0 /\ row.As_predicted = 0

\* A batch with a feasible row of non-zero steel area and an infeasible row
\* whose regression output was not zero.
C2_Witness ==
    /\ pc = "pb_return"
    /\ \E i, j \in 1..Len(results_df) :
          /\ results_df[i].is_feasible = 1
          /\ results_df[i].As_predicted # 0
          /\ results_df[i].Ac # pillars_data[i].largura * pillars_data[i].largura
          /\ results_df[j].is_feasible = 0
          /\ rho_preds[j] # 0

\* C3: row i of predict_batch(records) agrees with predict_single on
\* records[i] on feasibility, probability, predicted rho and predicted steel
\* area.  The first conjunct ties the function predict_single to the steps
\* of the single path.
C3_BatchAgreesWithSingle ==
    /\ pc = "ps_return" => result = predict_single(pillar_data)
    /\ pc = "pb_return" =>
          \A i \in 1..Len(pillars_data) :
             LET single == predict_single(pillars_data[i])
                 row    == results_df[i]
             IN  /\ (single.status = "Feasible") <=> (row.is_feasible = 1)
                 /\ single.feasibility_prob = row.prob_feasible
                 /\ single.rho_predicted = row.rho_predicted
                 /\ single.As_predicted = row.As_predicted

\* A batch of records of different areas, one infeasible on which the
\* regressor ran, one feasible.
C3_Witness ==
    /\ pc = "pb_return"
    /\ \E i, j \in 1..Len(results_df) :
          /\ results_df[i].is_feasible = 0
          /\ rho_preds[i] # 0
          /\ results_df[j].is_feasible = 1
          /\ results_df[j].Ac # results_df[1].Ac

\* The condition under which find_optimal_width penalizes a candidate, as
\* the claims state it.
Penalized(row) == row.is_feasible = 0 \/ row.prob_feasible < 50

\* The cost computed for a candidate before any penalization.
ComputedCost(row) == row.custo_concreto.val + row.custo_aco.val

\* C4: in the returned table every candidate with is_feasible 0 or
\* probability below 0.5 has total cost +infinity.
C4_PenalizedInfinite ==
    pc = "fow_return" =>
        \A i \in 1..Len(df_final) :
           Penalized(df_final[i]) => df_final[i].custo_total = PosInf

\* A candidate labelled feasible is penalized for its low probability alone.
C4_Witness ==
    /\ pc = "fow_return"
    /\ \E i \in 1..Len(df_final) :
          /\ df_final[i].is_feasible = 1
          /\ df_final[i].prob_feasible < 50
          /\ df_final[i].custo_total = PosInf

\* C5: in the returned table every candidate that is not penalized has total
\* cost concrete cost + steel cost, both finite and non-negative, whatever
\* the regressor returns.
C5_CostsNonNegative ==
    pc = "fow_return" =>
        \A i \in 1..Len(df_final) :
           ~Penalized(df_final[i]) =>
              /\ ~df_final[i].custo_concreto.inf
              /\ ~df_final[i].custo_aco.inf
              /\ df_final[i].custo_total = Fin(ComputedCost(df_final[i]))
              /\ df_final[i].custo_concreto.val >= 0
              /\ df_final[i].custo_aco.val >= 0

\* C6: no penalized candidate is ranked ahead of a non-penalized one; when
\* some candidate is not penalized, the first row is not penalized.
C6_PenalizedNeverAhead ==
    pc = "fow_return" =>
        /\ \A i, j \in 1..Len(df_final) :
              (i < j /\ Penalized(df_final[i])) => Penalized(df_final[j])
        /\ (\E j \in 1..Len(df_final) : ~Penalized(df_final[j])) =>
              ~Penalized(df_final[1])

\* A penalized candidate has a lower computed cost than the winner.
C6_Witness ==
    /\ pc = "fow_return"
    /\ Len(df_final) >= 2
    /\ ~Penalized(df_final[1])
    /\ \E j \in 2..Len(df_final) :
          /\ Penalized(df_final[j])
          /\ ComputedCost(df_final[j]) < ComputedCost(df_final[1])

\* C7: the returned table is in non-decreasing order of total cost, the
\* +infinity rows last.
C7_AscendingCost ==
    pc = "fow_return" =>
        /\ \A i \in 1..(Len(df_final) - 1) :
              Leq(df_final[i].custo_total, df_final[i + 1].custo_total)
        /\ \A i, j \in 1..Len(df_final) :
              (i < j /\ df_final[i].custo_total.inf) =>
                 df_final[j].custo_total.inf

\* Three candidates, finite and infinite costs, returned in another order
\* than the grid's.
C7_Witness ==
    /\ pc = "fow_return"
    /\ Len(df_final) >= 3
    /\ df_final[Len(df_final)].custo_total.inf
    /\ ~df_final[1].custo_total.inf
    /\ \E i \in 1..(Len(df_final) - 1) :
          df_final[i].largura > df_final[i + 1].largura

\* C8: two candidates of equal total cost (two penalized ones included)
\* appear in the order of the grid, i.e. by ascending width.
C8_TiesInGridOrder ==
    pc = "fow_return" =>
        \A i, j \in 1..Len(df_final) :
           (i < j /\ df_final[i].custo_total = df_final[j].custo_total) =>
              df_final[i].largura < df_final[j].largura

\* C9: if every candidate is penalized, the top-ranked row has total cost
\* +infinity and is_feasible 0.
C9_AllPenalizedTop ==
    (/\ pc = "fow_return"
     /\ Len(df_final) >= 1
     /\ \A i \in 1..Len(df_final) : Penalized(df_final[i])) =>
        /\ df_final[1].custo_total = PosInf
        /\ df_final[1].is_feasible = 0

\* The grid has been built for the running find_optimal_width call.
GridBuilt == in_optimizer

\* The widths of the candidates, as a set.
GridWidths == {candidates[i].largura : i \in 1..Len(candidates)}

\* The widths min_width + k*step that do not exceed max_width.
ExpectedWidths ==
    { w \in constraints.min_largura..constraints.max_largura :
        (w - constraints.min_largura) % constraints.step = 0 }

\* floor((max_width - min_width) / step) + 1
GridSizeFormula ==
    ((constraints.max_largura - constraints.min_largura)
        \div constraints.step) + 1

\* C10 as stated: the grid holds exactly the widths min_width + k*step up to
\* max_width, each once, and its size is floor((max - min)/step) + 1 for all
\* min_width, max_width and step >= 1.
C10_GridAsStated ==
    GridBuilt =>
        /\ GridWidths = ExpectedWidths
        /\ Cardinality(GridWidths) = Len(candidates)
        /\ Len(candidates) = GridSizeFormula

\* C10, amended: the grid holds exactly the widths min_width + k*step up to
\* max_width, each once and in ascending order; its size is
\* floor((max - min)/step) + 1 when max_width >= min_width and 0 otherwise.
C10_Grid ==
    GridBuilt =>
        /\ GridWidths = ExpectedWidths
        /\ Cardinality(GridWidths) = Len(candidates)
        /\ \A i \in 1..Len(candidates) :
              candidates[i].largura =
                 constraints.min_largura + (i - 1) * constraints.step
        /\ Len(candidates) =
              IF constraints.max_largura >= constraints.min_largura
              THEN GridSizeFormula
              ELSE 0

\* A grid of several widths whose last one is max_width itself.
C10_Witness ==
    /\ GridBuilt
    /\ constraints.step >= 2
    /\ Len(candidates) >= 2
    /\ candidates[Len(candidates)].largura = constraints.max_largura

\* The rows of the returned table that carry the width of candidate k.
RowsOfCandidate(k) ==
    {i \in 1..Len(df_final) : df_final[i].largura = candidates[k].largura}

\* C11: find_optimal_width returns the full grid: the returned table has
\* exactly one row per grid candidate, and each row's width, height,
\* is_feasible, probability, predicted rho, predicted steel area and costs
\* are those of one and the same candidate, whatever the sort did.
C11_FullGrid ==
    pc = "fow_return" =>
        /\ Len(df_final) = Len(candidates)
        /\ \A k \in 1..Len(candidates) :
              /\ Cardinality(RowsOfCandidate(k)) = 1
              /\ \A i \in RowsOfCandidate(k) :
                    LET row    == df_final[i]
                        single == predict_single(candidates[k])
                        cc     == CostConcreto(candidates[k].largura,
                                               candidates[k].Altura,
                                               fixed_params.PeDireito, costs)
                        ca     == CostAco(single.As_predicted,
                                          fixed_params.PeDireito, costs)
                    IN  /\ row.Altura = candidates[k].Altura
                        /\ (row.is_feasible = 1) <=>
                              (single.status = "Feasible")
                        /\ row.prob_feasible = single.feasibility_prob
                        /\ row.rho_predicted = single.rho_predicted
                        /\ row.As_predicted = single.As_predicted
                        /\ row.Ac = single.Ac
                        /\ row.custo_concreto = Fin(cc)
                        /\ row.custo_aco = Fin(ca)
                        /\ row.custo_total \in {Fin(cc + ca), PosInf}

\* A grid of three candidates comes back with the widest one first, and
\* with rows of different labels and steel areas.
C11_Witness ==
    /\ pc = "fow_return"
    /\ Len(df_final) = 3
    /\ df_final[1].largura = candidates[3].largura
    /\ df_final[1].is_feasible = 1
    /\ df_final[1].As_predicted # 0
    /\ \E i \in 2..3 : df_final[i].is_feasible = 0

\* The model invocations the claims count.
ModelCalls == {"classifier.predict", "classifier.predict_proba",
               "regressor.predict"}

\* The running find_optimal_width call has ended, by return or by raise.
OptimizerEnded == in_optimizer /\ pc \in {"fow_return", "raised"}

\* C12 as stated: each find_optimal_width call invokes predict_batch exactly
\* once, and classifier.predict, classifier.predict_proba and
\* regressor.predict exactly once each, whatever the number of candidates.
C12_OncePerCall ==
    OptimizerEnded =>
        /\ Count(calls, "predict_batch") = 1
        /\ \A c \in ModelCalls : Count(calls, c) = 1

\* C12, amended: each find_optimal_width call invokes predict_batch exactly
\* once and never invokes a model more than once; when the grid is not
\* empty the call returns having invoked each of the three model methods
\* exactly once, whatever the number of candidates; when the grid is empty
\* predict_batch raises before any model is invoked.
C12_OnceWhenNonEmpty ==
    in_optimizer =>
        /\ Count(calls, "predict_batch") = 1
        /\ \A c \in ModelCalls : Count(calls, c) <= 1
        /\ pc = "fow_return" =>
              /\ Len(candidates) > 0
              /\ \A c \in ModelCalls : Count(calls, c) = 1
        /\ pc = "raised" =>
              /\ Len(candidates) = 0
              /\ \A c \in ModelCalls : Count(calls, c) = 0

\* A grid of three candidates has been ranked with one invocation of each
\* model method.
C12_Witness ==
    /\ pc = "fow_return"
    /\ Len(candidates) = 3
    /\ calls = <<"predict_batch", "features", "classifier.predict",
                 "classifier.predict_proba", "regressor.predict">>

\* The positions of a predict_batch call, whoever the caller is.
BatchPcs == {"pb_features", "pb_classify", "pb_regress", "pb_mask",
             "pb_return", "fow_costs", "fow_sort", "fow_return", "raised"}

\* C13: predict_batch called with an empty sequence, by a user or by
\* find_optimal_width on an empty grid, fails: the call never gets past
\* feature engineering, invokes no model, and neither predict_batch nor
\* find_optimal_width returns a table.
C13_EmptyBatchFails ==
    (/\ pc \in BatchPcs
     /\ Count(calls, "predict_batch") = 1
     /\ Len(pillars_data) = 0) =>
        /\ pc \in {"pb_features", "raised"}
        /\ calls = <<"predict_batch">>
        /\ results_df = <<>>
        /\ df_results = <<>>
        /\ df_final = <<>>

\* find_optimal_width with min_width > max_width has raised out of its
\* predict_batch call.
C13_Witness ==
    /\ pc = "raised"
    /\ in_optimizer
    /\ constraints.min_largura > constraints.max_largura
    /\ pillars_data = <<>>
    /\ calls = <<"predict_batch">>

\* Record i of the running batch lacks a required raw field.
LacksRawField(i) == ~(RawFeatureColumns \subseteq DOMAIN pillars_data[i])

\* C14: if any single row passed to predict_batch lacks a required raw
\* field, the whole call fails and no row gets a result, even when every
\* other row supplies that field.
C14_OneBadRowAborts ==
    (/\ pc \in BatchPcs
     /\ \E i \in 1..Len(pillars_data) : LacksRawField(i)) =>
        /\ pc \in {"pb_features", "raised"}
        /\ results_df = <<>>

\* The model outputs in a predict_single result.
OutputsOf(res) ==
    [status |-> res.status, feasibility_prob |-> res.feasibility_prob,
     rho_predicted |-> res.rho_predicted, As_predicted |-> res.As_predicted]

\* The model outputs in a row of predict_batch's table.
RowOutputsOf(row) ==
    [is_feasible |-> row.is_feasible, prob_feasible |-> row.prob_feasible,
     rho_predicted |-> row.rho_predicted, As_predicted |-> row.As_predicted]

\* The row of X the models receive for a record.
XOf(record) ==
    FeatureMatrix(ProcessPillarData(DataFrame(<<record>>)))[1]

\* Two records that differ at most in their As entry.
SameButAs(r, q) == Assign(r, "As", 0) = Assign(q, "As", 0)

\* C15: the observed steel area As never influences the model outputs.  The
\* row of X built for a record is the same for every value of its As, so
\* predict_single and predict_batch give records that differ only in As the
\* same is_feasible, probability, predicted rho and steel area; every
\* candidate of find_optimal_width has As = 0, and the annotated grid, hence
\* its costs and its possible rankings, is the same for inputs that differ
\* only in an As entry.
C15_AsNeverInfluences ==
    /\ pc = "ps_return" =>
          \A a \in AsValues :
             LET other == Assign(pillar_data, "As", a)
             IN  /\ XOf(other) = FeatureMatrix(df_eng)[1]
                 /\ OutputsOf(predict_single(other)) = OutputsOf(result)
    /\ pc = "pb_return" =>
          /\ results_df = predict_batch(pillars_data)
          /\ \A i, j \in 1..Len(pillars_data) :
                SameButAs(pillars_data[i], pillars_data[j]) =>
                   /\ FeatureRow(df_eng[i]) = FeatureRow(df_eng[j])
                   /\ RowOutputsOf(results_df[i]) = RowOutputsOf(results_df[j])
    /\ GridBuilt =>
          /\ \A i \in 1..Len(candidates) : candidates[i].As = 0
          /\ \A a \in AsValues :
                /\ candidates =
                      Candidates(Assign(fixed_params, "As", a), loads,
                                 constraints)
                /\ candidates =
                      Candidates(fixed_params, Assign(loads, "As", a),
                                 constraints)
    /\ pc = "fow_sort" =>
          \A a \in AsValues :
             /\ df_results =
                   AnnotatedGrid(Assign(fixed_params, "As", a), loads,
                                 constraints, costs)
             /\ df_results =
                   AnnotatedGrid(fixed_params, Assign(loads, "As", a),
                                 constraints, costs)

\* A batch holds the same section with and without an observed steel area,
\* both rows feasible with a non-zero predicted steel area.
C15_Witness ==
    /\ pc = "pb_return"
    /\ \E i, j \in 1..Len(pillars_data) :
          /\ pillars_data[i].As # pillars_data[j].As
          /\ SameButAs(pillars_data[i], pillars_data[j])
          /\ results_df[i].is_feasible = 1
          /\ results_df[i].As_predicted # 0
          /\ results_df[i].As_actual # results_df[j].As_actual

\* The height the caller supplies: the one in loads, which the merge lets
\* win, or else the one in fixed_params.
SuppliedHeight ==
    IF "Altura" \in DOMAIN loads THEN loads.Altura ELSE fixed_params.Altura

\* C16: the candidate built for the i-th grid width b has width b; its
\* height is b when neither fixed_params nor loads supplies a height, and
\* the supplied height, the same for every width, otherwise.
C16_CandidateDims ==
    GridBuilt =>
        \A i \in 1..Len(candidates) :
           LET b == constraints.min_largura + (i - 1) * constraints.step
           IN  /\ candidates[i].largura = b
               /\ candidates[i].Altura =
                     IF "Altura" \in (DOMAIN fixed_params) \cup (DOMAIN loads)
                     THEN SuppliedHeight
                     ELSE b

\* A grid of several widths with the fixed height, one width different from
\* it.
C16_Witness ==
    /\ GridBuilt
    /\ "Altura" \in DOMAIN fixed_params
    /\ "Altura" \notin DOMAIN loads
    /\ Len(candidates) >= 2
    /\ candidates[1].Altura = fixed_params.Altura
    /\ candidates[2].Altura = fixed_params.Altura
    /\ candidates[2].largura # candidates[2].Altura

\* One step of any call: the loaded models are left as they were, and a
\* result the step delivers is the function of the call's input and of the
\* models that predict_single, predict_batch and the annotated grid are.
C17_Step ==
    /\ classifier' = classifier
    /\ regressor' = regressor
    /\ pc' = "ps_return" => result' = predict_single(pillar_data')
    /\ pc' = "pb_return" => results_df' = predict_batch(pillars_data')
    /\ pc' = "fow_sort" =>
          df_results' = AnnotatedGrid(fixed_params', loads', constraints',
                                      costs')

\* C17: after construction, no step of any sequence of predict_single,
\* predict_batch and find_optimal_width calls changes the loaded classifier
\* or regressor, so the result of a call is a function of its input and of
\* the models as loaded, whatever calls preceded it.
C17_ModelsUnchanged == [][C17_Step]_vars

\* A predict_single call returns a feasible result computed by models whose
\* leaves differ.
C17_Witness ==
    /\ pc = "ps_return"
    /\ result.status = "Feasible"
    /\ result.As_predicted # 0
    /\ classifier.lo # classifier.hi
    /\ regressor.lo # regressor.hi

\* The positions of the constructor.
LoadPcs == {"new", "load_regressor", "load_failed"}

\* C18: if loading either model fails, constructing PillarPredictor fails
\* and no predictor instance exists: whenever the predictor accepts or runs
\* a call both models are loaded ones, and after a failed load no step is
\* possible and no prediction has been produced.
C18_NoPartialPredictor ==
    /\ pc \notin LoadPcs =>
          /\ classifier \in Classifiers
          /\ regressor \in Regressors
    /\ pc = "load_failed" =>
          /\ classifier = NotLoaded \/ regressor = NotLoaded
          /\ result = <<>>
          /\ results_df = <<>>
          /\ calls = <<>>
          /\ ~ENABLED NextLoad

\* The classifier was loaded and the regressor was not: construction has
\* failed.
C18_Witness ==
    /\ pc = "load_failed"
    /\ classifier \in Classifiers
    /\ regressor = NotLoaded

\* C19: for every record whose height equals its width, lambda_x equals
\* lambda_y and aspect_ratio equals 1.
C19_SquareSection ==
    \A i \in 1..Len(df_eng) :
       df_eng[i].Altura = df_eng[i].largura =>
          /\ FracEq(df_eng[i].lambda_x, df_eng[i].lambda_y)
          /\ FracEq(df_eng[i].aspect_ratio, Frac(1, 1))

\* The engineered grid holds a square section and, beside it, a section
\* that is not square and whose two slendernesses differ.
C19_Witness ==
    /\ Len(df_eng) >= 2
    /\ \E i, j \in 1..Len(df_eng) :
          /\ df_eng[i].Altura = df_eng[i].largura
          /\ df_eng[j].Altura # df_eng[j].largura
          /\ ~FracEq(df_eng[j].lambda_x, df_eng[j].lambda_y)
          /\ ~FracEq(df_eng[j].aspect_ratio, Frac(1, 1))

\* The records the running call was given.
CallInput == IF pc \in SinglePcs THEN <<pillar_data>> ELSE pillars_data

RegressedPcs == {"pb_mask", "pb_return", "fow_costs", "fow_sort",
                 "fow_return"}

\* C21: in predict_batch the regressor is invoked once on all rows, the
\* rows labelled infeasible included, whatever the labels are; no table
\* exists before that, and the table built afterwards holds the regressor's
\* output for the feasible rows and 0 for the infeasible ones.
C21_RegressAllThenMask ==
    /\ pc \in {"pb_features", "pb_classify", "pb_regress"} =>
          /\ results_df = <<>>
          /\ Count(calls, "regressor.predict") = 0
    /\ pc \in RegressedPcs =>
          /\ Count(calls, "regressor.predict") = 1
          /\ Len(rho_preds) = Len(pillars_data)
          /\ \A i \in 1..Len(pillars_data) :
                rho_preds[i] = Leaf(regressor, FeatureRow(df_eng[i]))
    /\ pc \in RegressedPcs \ {"pb_mask"} =>
          \A i \in 1..Len(results_df) :
             /\ results_df[i].rho_predicted =
                   IF feasibility[i] = 1 THEN rho_preds[i] ELSE 0
             /\ results_df[i].As_predicted =
                   IF feasibility[i] = 1
                   THEN rho_preds[i] * df_eng[i].Ac
                   ELSE 0

\* A batch whose rows are all infeasible has been regressed all the same,
\* and its non-zero outputs masked.
C21_Witness ==
    /\ pc = "pb_return"
    /\ Len(results_df) = 2
    /\ \A i \in 1..2 :
          /\ feasibility[i] = 0
          /\ rho_preds[i] # 0
          /\ results_df[i].rho_predicted = 0
    /\ Count(calls, "regressor.predict") = 1

\* The record of the running predict_single call carries an observed steel
\* area, and it is positive.
ObservedPositive == "As" \in DOMAIN pillar_data /\ pillar_data.As > 0

\* C22: the result of predict_single has the fields error and error_pct if
\* and only if the status is Feasible and the record's observed steel area
\* is present and > 0; then error is the predicted steel area minus the
\* observed one, and error_pct is error / observed * 100 (the pair
\* <<error * 100, observed>>).
C22_ErrorFields ==
    pc = "ps_return" =>
        LET has == result.status = "Feasible" /\ ObservedPositive
        IN  /\ ("error" \in DOMAIN result) <=> has
            /\ ("error_pct" \in DOMAIN result) <=> has
            /\ has =>
                  /\ result.error = result.As_predicted - pillar_data.As
                  /\ result.error_pct =
                        <<result.error * 100, pillar_data.As>>

\* A feasible record with an observed steel area gets a non-zero error.
C22_Witness ==
    /\ pc = "ps_return"
    /\ result.status = "Feasible"
    /\ ObservedPositive
    /\ "error_pct" \in DOMAIN result
    /\ result.error # 0

\* m is the larger of the absolute values of a and b.
IsLargerAbs(m, a, b) ==
    /\ m \in {a, -a, b, -b}
    /\ \A v \in {a, -a, b, -b} : m >= v

\* The eccentricity e is stated for the moments top, base of the row: 0
\* when the axial force is 0 at both stations, and otherwise the larger
\* absolute moment over the larger absolute axial force.
EccentricityAsStated(e, row, top, base) ==
    IF row.N_top = 0 /\ row.N_base = 0
    THEN e.den # 0 /\ e.num = 0
    ELSE \E n \in {row.N_top, -row.N_top, row.N_base, -row.N_base},
            m \in {top, -top, base, -base} :
            /\ IsLargerAbs(n, row.N_top, row.N_base)
            /\ IsLargerAbs(m, top, base)
            /\ e.den # 0
            /\ FracEq(e, Frac(m, n))

\* C23: for every record whose axial force is 0 at both stations
\* create_engineered_features sets e_x and e_y to 0 and raises nothing; for
\* the others e_x = Mx_max / N_max and e_y = My_max / N_max, each *_max the
\* larger of the absolute top and base values.
C23_Eccentricities ==
    /\ pc = "raised" => CallInput = <<>>
    /\ \A i \in 1..Len(df_eng) :
          /\ EccentricityAsStated(df_eng[i].e_x, df_eng[i],
                                  df_eng[i].Mx_top, df_eng[i].Mx_base)
          /\ EccentricityAsStated(df_eng[i].e_y, df_eng[i],
                                  df_eng[i].My_top, df_eng[i].My_base)

\* A record without axial force but with moments has been engineered and
\* classified.
C23_Witness ==
    /\ pc = "ps_return"
    /\ df_eng[1].N_top = 0
    /\ df_eng[1].N_base = 0
    /\ df_eng[1].Mx_base # 0
    /\ df_eng[1].e_x = Frac(0, 1)
    /\ df_eng[1].e_y = Frac(0, 1)

\* One step inside a find_optimal_width call: the four argument dicts are
\* what they were, and a grid the step builds is made, width by width, from
\* the arguments as the caller passed them.
C24_Step ==
    (pc # "idle" /\ pc' # "idle") =>
        /\ fixed_params' = fixed_params
        /\ loads' = loads
        /\ constraints' = constraints
        /\ costs' = costs
        /\ (pc = "fow_grid") =>
              /\ Len(candidates') = Len(Larguras(constraints))
              /\ \A i \in 1..Len(candidates') :
                    candidates'[i] =
                       Candidate(fixed_params, loads, Larguras(constraints)[i])

\* C24: find_optimal_width leaves the caller's fixed_params, loads,
\* constraints and costs unchanged: no step of the call writes into them,
\* and every candidate is built from the arguments as passed, so the
\* height defaulted for one width does not reach the candidates of the
\* other widths.
C24_InputsUnchanged == [][C24_Step]_vars

\* A call without a supplied height has returned: the candidates have each
\* their own height, and fixed_params has gained no key.
C24_Witness ==
    /\ pc = "fow_return"
    /\ DOMAIN fixed_params = {"fck", "PeDireito", "Cobrimento"}
    /\ loads = LOAD_VECTOR
    /\ Len(candidates) >= 2
    /\ candidates[1].Altura # candidates[2].Altura
    /\ candidates[2].Altura = candidates[2].largura

====
